---- MODULE Spec2Model ----
(***************************************************************************)
(* Layout segmentation of gptpdf (src/gptpdf/parse_EN.py): the geometry    *)
(* predicates, _merge_rects, _adsorb_rects_to_rects and _parse_rects.      *)
(*                                                                         *)
(* Lengths are integers counting twentieths of a page unit (0.05 -> 1,     *)
(* 0.1 -> 2, 1 -> 20, 10 -> 200), so that the 0.1 buffer, the 0.1 line      *)
(* tolerance and a rule of height 0.05 are all exact.  A rectangle is the  *)
(* record of its bounds; every rectangle of the model has positive area    *)
(* (sg.box of such bounds is a valid polygon, equal to another box exactly *)
(* when the bounds are equal).                                             *)
(***************************************************************************)
EXTENDS Integers, Sequences, FiniteSets, TLC

VARIABLES
    mode,                 \* which entry point runs: "merge", "adsorb", "parse"
    pc,                   \* position in the running function
    ret,                  \* where the running call returns to
    \* ---- frame of _merge_rects
    rect_list,            \* the list being popped (entries carry the inputs they cover)
    new_rect_list,        \* the next pass's list
    merged,               \* the pass's merge flag
    distance,
    horizontal_distance,  \* 0 stands for None (both are falsy at line 69)
    passes,               \* number of passes of the outer loop started
    arg_list,             \* contents of the list object the caller passed in
    input0,               \* contents of that list when the call was made
    result,               \* the returned list
    first_call,           \* the first of two calls in sequence: input, result, passes
    \* ---- frame of _adsorb_rects_to_rects
    source_rects,
    target_rects,         \* the caller's target list object (updated in place)
    new_source_rects,
    position,             \* index of the next source of the for loop
    adsorb_distance,
    sources0,             \* contents of the two lists when the call was made
    targets0,
    fate,                 \* per source handled: target index it was unioned into, 0 if none
    \* ---- frame of _parse_rects
    drawings,
    images,
    blocks,
    pool,                 \* drawings kept plus images (rect_list, line 117)
    regions               \* the returned list

vars == <<mode, pc, ret, rect_list, new_rect_list, merged, distance,
          horizontal_distance, passes, arg_list, input0, result, first_call,
          source_rects, target_rects, new_source_rects, position,
          adsorb_distance, sources0, targets0, fate,
          drawings, images, blocks, pool, regions>>

mergeFrame == <<rect_list, new_rect_list, merged, distance, horizontal_distance,
                passes, arg_list, input0, result>>
adsorbFrame == <<source_rects, target_rects, new_source_rects, position,
                 adsorb_distance, sources0, targets0, fate>>
pageFrame == <<drawings, images, blocks>>

----------------------------------------------------------------------------
(* Program constants, in twentieths of a unit *)
BufferEps == 2            \* buffer(0.1)
LineTol == 2              \* 0.1 in _is_horizontal_near
ShortLineHeight == 20     \* 1
ShortLineWidth == 600     \* 30
PoolDistance == 200       \* distance=10
PoolHorizontal == 2000    \* horizontal_distance=100
LargeTextDistance == 2    \* distance=0.1
SmallTextDistance == 100  \* distance=5
\* The final merge called with distance 5.
FinalDistanceHalf == 5 * 20
FinalDistance == 200      \* distance=10
\* The size filter set at 10.
MinSideHalf == 10 * 20
MinSide == 400            \* 20
LargeRatio == 5           \* characters per line

----------------------------------------------------------------------------
(* Geometry *)
Max(a, b) == IF a >= b THEN a ELSE b
Min(a, b) == IF a <= b THEN a ELSE b
Abs(a) == IF a >= 0 THEN a ELSE -a

box(x0, y0, x1, y1) == [x0 |-> x0, y0 |-> y0, x1 |-> x1, y1 |-> y1]

\* Axis gaps between two rectangles (0 when the projections meet).
GapX(a, b) == Max(0, Max(a.x0 - b.x1, b.x0 - a.x1))
GapY(a, b) == Max(0, Max(a.y0 - b.y1, b.y0 - a.y1))

\* The test taken on the rectangles themselves, without the buffer.
_is_nearTight(rect1, rect2, d) ==
    LET dx == GapX(rect1, rect2)
        dy == GapY(rect1, rect2)
    IN  d > 0 /\ dx * dx + dy * dy < d * d

\* rect1.buffer(0.1).distance(rect2.buffer(0.1)) < distance: the buffered
\* shapes are 2*BufferEps closer than the rectangles, and at distance 0 when
\* they meet, so the test is  max(0, sqrt(dx^2+dy^2) - 0.2) < distance.
\* (The buffer rounds corners with short straight segments; that moves a
\* corner-to-corner distance by less than 0.001 and decides no test here.)
_is_near(rect1, rect2, d) ==
    LET dx == GapX(rect1, rect2)
        dy == GapY(rect1, rect2)
        reach == d + 2 * BufferEps
    IN  d > 0 /\ dx * dx + dy * dy < reach * reach

_is_horizontal_near(rect1, rect2, d) ==
    IF Abs(rect1.y1 - rect1.y0) < LineTol \/ Abs(rect2.y1 - rect2.y0) < LineTol
    THEN IF Abs(rect1.x0 - rect2.x0) < LineTol /\ Abs(rect1.x1 - rect2.x1) < LineTol
         THEN Abs(rect1.y1 - rect2.y1) < d
         ELSE FALSE
    ELSE FALSE

\* The union taken as its second argument alone.
_union_rectsSecond(rect1, rect2) == rect2

_union_rects(rect1, rect2) ==
    box(Min(rect1.x0, rect2.x0), Min(rect1.y0, rect2.y0),
        Max(rect1.x1, rect2.x1), Max(rect1.y1, rect2.y1))

\* The condition of lines 68-69.
MergePredicate(rect, other, d, hd) ==
    _is_near(rect, other, d) \/ (hd # 0 /\ _is_horizontal_near(rect, other, hd))

Contains(outer, inner) ==
    /\ outer.x0 <= inner.x0 /\ outer.y0 <= inner.y0
    /\ inner.x1 <= outer.x1 /\ inner.y1 <= outer.y1

Width(r) == r.x1 - r.x0
Height(r) == r.y1 - r.y0

----------------------------------------------------------------------------
(* List helpers *)
SeqsUpTo(S, n) == UNION {[1..k -> S] : k \in 0..n}

RemoveAt(list, j) == [k \in 1..(Len(list) - 1) |-> IF k < j THEN list[k] ELSE list[k + 1]]

\* list.remove(x): the first entry equal to x goes (boxes compare by bounds).
FirstIndexOf(list, b) == CHOOSE j \in 1..Len(list) :
    list[j].b = b /\ \A k \in 1..(j - 1) : list[k].b # b

\* A list of rectangles as _merge_rects receives it; entry i covers input i.
Tagged(list) == [i \in 1..Len(list) |-> [b |-> list[i], src |-> {i}]]
Bounds(list) == [i \in 1..Len(list) |-> list[i].b]

----------------------------------------------------------------------------
(* _merge_rects *)

\* Lines 67-72: the for loop over rect_list, which the body shrinks while the
\* loop's index keeps advancing.
RECURSIVE ScanFrom(_, _, _, _, _, _)
ScanFrom(rect, list, i, m, d, hd) ==
    IF i > Len(list)
    THEN [rect |-> rect, rect_list |-> list, merged |-> m]
    ELSE LET other_rect == list[i]
         IN  IF MergePredicate(rect.b, other_rect.b, d, hd)
             THEN LET j == FirstIndexOf(list, other_rect.b)
                      grown == [b |-> _union_rects(rect.b, other_rect.b),
                                src |-> rect.src \cup list[j].src]
                  IN  ScanFrom(grown, RemoveAt(list, j), i + 1, TRUE, d, hd)
             ELSE ScanFrom(rect, list, i + 1, m, d, hd)

\* The outer loop stopped after its first pass.
LoopAgainNever(m) == FALSE

\* The outer loop run again whatever the pass did.
LoopAgainAlways(m) == TRUE

\* Line 62: the outer loop runs again exactly when the pass merged.
LoopAgain(m) == m

\* The merge working on a copy of its argument.
CallerListCopy(n, list, arg) == arg

\* The caller's list object: rect_list is that object during the first pass
\* (pop and remove act on it), and a fresh list after line 74.
CallerList(n, list, arg) == IF n = 1 THEN Bounds(list) ELSE arg

\* The frame at entry: lines 61-64 of the first pass.
EnterMerge(list, d, hd, back) ==
    /\ rect_list' = Tagged(list)
    /\ new_rect_list' = <<>>
    /\ merged' = FALSE
    /\ distance' = d
    /\ horizontal_distance' = hd
    /\ passes' = 1
    /\ arg_list' = list
    /\ input0' = list
    /\ pc' = "merge"
    /\ ret' = back

\* Lines 65-73: pop the head, scan the rest, append.
MergePopScan ==
    /\ pc = "merge"
    /\ rect_list # <<>>
    /\ LET s == ScanFrom(Head(rect_list), Tail(rect_list), 1, merged,
                         distance, horizontal_distance)
       IN  /\ rect_list' = s.rect_list
           /\ merged' = s.merged
           /\ new_rect_list' = Append(new_rect_list, s.rect)
           /\ arg_list' = CallerList(passes, s.rect_list, arg_list)
    /\ UNCHANGED <<mode, pc, ret, distance, horizontal_distance, passes, input0,
                   result, first_call, adsorbFrame, pageFrame, pool, regions>>

\* Lines 74, 62-64: the pass is over and merged something.
MergeNextPass ==
    /\ pc = "merge"
    /\ rect_list = <<>>
    /\ LoopAgain(merged)
    /\ rect_list' = new_rect_list
    /\ new_rect_list' = <<>>
    /\ merged' = FALSE
    /\ passes' = passes + 1
    /\ UNCHANGED <<mode, pc, ret, distance, horizontal_distance, arg_list, input0,
                   result, first_call, adsorbFrame, pageFrame, pool, regions>>

\* Lines 74, 62, 75: the pass is over and merged nothing.
MergeReturn ==
    /\ pc = "merge"
    /\ rect_list = <<>>
    /\ ~LoopAgain(merged)
    /\ rect_list' = new_rect_list
    /\ result' = Bounds(new_rect_list)
    /\ pc' = ret
    /\ UNCHANGED <<mode, ret, new_rect_list, merged, distance,
                   horizontal_distance, passes, arg_list, input0, first_call,
                   adsorbFrame, pageFrame, pool, regions>>

----------------------------------------------------------------------------
(* _adsorb_rects_to_rects *)

\* Lines 86-87, 91: the index of the first target near the source, 0 if none.
FirstNear(text_area_rect, targets, d) ==
    IF \E k \in 1..Len(targets) : _is_near(text_area_rect, targets[k], d)
    THEN CHOOSE k \in 1..Len(targets) :
             /\ _is_near(text_area_rect, targets[k], d)
             /\ \A h \in 1..(k - 1) : ~_is_near(text_area_rect, targets[h], d)
    ELSE 0

\* Lines 88-89: the target entry is replaced by its union with the source.
ReplaceAt(targets, index, text_area_rect) ==
    [targets EXCEPT ![index] = _union_rects(text_area_rect, targets[index])]

\* Every source kept, adsorbed or not.
LeftoverAlways(adsorbed, list, text_area_rect) == Append(list, text_area_rect)

\* Lines 92-93: a source that no target adsorbed is kept.
Leftover(adsorbed, list, text_area_rect) ==
    IF adsorbed THEN list ELSE Append(list, text_area_rect)

\* The frame at entry: line 83.
EnterAdsorb(sources, targets, d, back) ==
    /\ source_rects' = sources
    /\ target_rects' = targets
    /\ new_source_rects' = <<>>
    /\ position' = 1
    /\ adsorb_distance' = d
    /\ sources0' = sources
    /\ targets0' = targets
    /\ fate' = <<>>
    /\ pc' = "adsorb"
    /\ ret' = back

\* Lines 84-93: one iteration of the loop over the sources.
AdsorbSource ==
    /\ pc = "adsorb"
    /\ position <= Len(source_rects)
    /\ LET text_area_rect == source_rects[position]
           index == FirstNear(text_area_rect, target_rects, adsorb_distance)
       IN  /\ target_rects' = IF index # 0
                              THEN ReplaceAt(target_rects, index, text_area_rect)
                              ELSE target_rects
           /\ new_source_rects' = Leftover(index # 0, new_source_rects, text_area_rect)
           /\ fate' = Append(fate, index)
    /\ position' = position + 1
    /\ UNCHANGED <<mode, pc, ret, mergeFrame, first_call, source_rects,
                   adsorb_distance, sources0, targets0, pageFrame, pool, regions>>

\* Line 94: return (new_source_rects, target_rects).
AdsorbReturn ==
    /\ pc = "adsorb"
    /\ position > Len(source_rects)
    /\ pc' = ret
    /\ UNCHANGED <<mode, ret, mergeFrame, first_call, adsorbFrame, pageFrame,
                   pool, regions>>

----------------------------------------------------------------------------
(* _parse_rects *)

\* Line 106.
is_short_line(x) ==
    Abs(x.y1 - x.y0) < ShortLineHeight /\ Abs(x.x1 - x.x0) < ShortLineWidth

NotShortLine(x) == ~is_short_line(x)

\* Line 123: len(text) / max(1, number of lines) > 5; a block of the model
\* carries its character count and its line count (at least 1).
is_large_content(x) == x.chars > LargeRatio * Max(1, x.lines)

NotLargeContent(x) == ~is_large_content(x)

\* Line 120: a box is valid geometry when it has positive area.
IsValid(rect) == rect.x0 < rect.x1 /\ rect.y0 < rect.y1

\* Line 133.
BigEnough(rect) == Width(rect) > MinSide /\ Height(rect) > MinSide

\* The leftover sources carried on as regions of their own.
KeptAfterAdsorbWithLeftover(leftover, targets) == targets \o leftover

\* Lines 126, 127: "_, merged_rects = ...": the targets go on, the leftover
\* sources are dropped.
KeptAfterAdsorb(leftover, targets) == targets

BlockRects(list) == [i \in 1..Len(list) |-> list[i].rect]

\* Lines 103-119: drop short lines, pool drawings and images, first merge.
ParseStart ==
    /\ pc = "start"
    /\ pool' = SelectSeq(drawings, NotShortLine) \o images
    /\ EnterMerge(pool', PoolDistance, PoolHorizontal, "pool_merged")
    /\ UNCHANGED <<mode, result, first_call, adsorbFrame, pageFrame, regions>>

\* Lines 120-126: validity filter, classify the text blocks, adsorb the large.
ParseAdsorbLarge ==
    /\ pc = "pool_merged"
    /\ EnterAdsorb(BlockRects(SelectSeq(blocks, is_large_content)),
                   SelectSeq(result, IsValid), LargeTextDistance, "large_adsorbed")
    /\ UNCHANGED <<mode, mergeFrame, first_call, pageFrame, pool, regions>>

\* Lines 126-127: keep the targets, drop the leftovers, adsorb the small.
ParseAdsorbSmall ==
    /\ pc = "large_adsorbed"
    /\ EnterAdsorb(BlockRects(SelectSeq(blocks, NotLargeContent)),
                   KeptAfterAdsorb(new_source_rects, target_rects),
                   SmallTextDistance, "small_adsorbed")
    /\ UNCHANGED <<mode, mergeFrame, first_call, pageFrame, pool, regions>>

\* Lines 127-130: keep the targets, drop the leftovers, merge again.
ParseFinalMerge ==
    /\ pc = "small_adsorbed"
    /\ EnterMerge(KeptAfterAdsorb(new_source_rects, target_rects),
                  FinalDistance, 0, "final_merged")
    /\ UNCHANGED <<mode, result, first_call, adsorbFrame, pageFrame, pool, regions>>

\* Lines 130-135: size filter and return of the bounds.
ParseFilter ==
    /\ pc = "final_merged"
    /\ regions' = SelectSeq(result, BigEnough)
    /\ pc' = "done"
    /\ UNCHANGED <<mode, ret, mergeFrame, first_call, adsorbFrame, pageFrame, pool>>

----------------------------------------------------------------------------
(* Two calls of _merge_rects in sequence, the second on the first's result *)
MergeAgain ==
    /\ mode = "merge"
    /\ pc = "merged_once"
    /\ first_call' = [input |-> input0, result |-> result, passes |-> passes]
    /\ EnterMerge(result, distance, horizontal_distance, "merged_twice")
    /\ UNCHANGED <<mode, result, adsorbFrame, pageFrame, pool, regions>>

----------------------------------------------------------------------------
(* Inputs *)
MaxRects == 4        \* rectangles in a list given to _merge_rects
MaxAdsorb == 4       \* sources plus targets given to _adsorb_rects_to_rects
MaxPrimitives == 4   \* drawings plus images plus text blocks of a page

ubox(x0, y0, x1, y1) == box(20 * x0, 20 * y0, 20 * x1, 20 * y1)
\* A horizontal rule of height 0.05 from (x0, y) to (x1, y + 0.05).
rule(x0, y, x1) == box(20 * x0, 20 * y, 20 * x1, 20 * y + 1)

MergeBoxes ==
    { ubox(0, 0, 50, 50),         \* A
      ubox(55, 0, 100, 50),       \* right of A, gap 5, same vertical extent
      ubox(0, 55, 50, 100),       \* below A, gap 5
      ubox(56, 56, 100, 100),     \* diagonal to A: 6 and 6
      ubox(200, 200, 260, 260),   \* far from all
      rule(0, 130, 50) }          \* a rule with A's left and right edges, 80 below
MergeDistances == {80, 100, 200}  \* 4, 5, 10
HorizontalDistances == {0, 2000}  \* None, 100

SourceBoxes ==
    { ubox(10, 10, 40, 40),       \* inside A
      ubox(53, 10, 62, 40),       \* 3 right of A, overlapping the box at 55
      ubox(104, 10, 150, 40),     \* 4 right of the box ending at 100
      ubox(0, 0, 150, 50),        \* covers the three above
      ubox(300, 300, 400, 400) }  \* far from all
TargetBoxes ==
    { ubox(0, 0, 50, 50), ubox(55, 0, 100, 50), ubox(200, 200, 260, 260) }
AdsorbDistances == {2, 100, 200}  \* 0.1, 5, 10 (the default)

DrawingBoxes ==
    { ubox(0, 0, 50, 50),
      ubox(55, 0, 100, 50),
      ubox(0, 56, 12, 68),        \* 12 by 12, 6 below the first
      rule(0, 130, 50),           \* long rule aligned with the first
      rule(60, 60, 80) }          \* short rule (width 20)
ImageBoxes ==
    { ubox(72, 0, 130, 60),       \* 22 right of the first drawing
      ubox(200, 200, 260, 260) }
TextBlocks ==
    { [rect |-> ubox(10, 10, 40, 40), chars |-> 40, lines |-> 2],
      [rect |-> ubox(53, 10, 62, 40), chars |-> 10, lines |-> 2],    \* 5 per line: small
      [rect |-> ubox(53, 10, 62, 40), chars |-> 11, lines |-> 2],    \* large
      [rect |-> ubox(5, 5, 15, 15), chars |-> 3, lines |-> 1],
      [rect |-> ubox(300, 300, 400, 400), chars |-> 60, lines |-> 3] }

NoCall == [input |-> <<>>, result |-> <<>>, passes |-> 0]

\* A call of _merge_rects(list, d, hd).
InitMerge ==
    \E list \in SeqsUpTo(MergeBoxes, MaxRects), d \in MergeDistances,
       hd \in HorizontalDistances :
        /\ mode = "merge" /\ pc = "merge" /\ ret = "merged_once"
        /\ rect_list = Tagged(list) /\ new_rect_list = <<>> /\ merged = FALSE
        /\ distance = d /\ horizontal_distance = hd /\ passes = 1
        /\ arg_list = list /\ input0 = list /\ result = <<>> /\ first_call = NoCall
        /\ source_rects = <<>> /\ target_rects = <<>> /\ new_source_rects = <<>>
        /\ position = 0 /\ adsorb_distance = 0 /\ sources0 = <<>> /\ targets0 = <<>>
        /\ fate = <<>>
        /\ drawings = <<>> /\ images = <<>> /\ blocks = <<>>
        /\ pool = <<>> /\ regions = <<>>

\* A call of _adsorb_rects_to_rects(sources, targets, d).
InitAdsorb ==
    \E sources \in SeqsUpTo(SourceBoxes, MaxAdsorb), d \in AdsorbDistances :
      \E targets \in SeqsUpTo(TargetBoxes, MaxAdsorb - Len(sources)) :
        /\ mode = "adsorb" /\ pc = "adsorb" /\ ret = "adsorbed"
        /\ rect_list = <<>> /\ new_rect_list = <<>> /\ merged = FALSE
        /\ distance = 0 /\ horizontal_distance = 0 /\ passes = 0
        /\ arg_list = <<>> /\ input0 = <<>> /\ result = <<>> /\ first_call = NoCall
        /\ source_rects = sources /\ target_rects = targets
        /\ new_source_rects = <<>> /\ position = 1 /\ adsorb_distance = d
        /\ sources0 = sources /\ targets0 = targets /\ fate = <<>>
        /\ drawings = <<>> /\ images = <<>> /\ blocks = <<>>
        /\ pool = <<>> /\ regions = <<>>

\* A call of _parse_rects(page).
InitParse ==
    \E ds \in SeqsUpTo(DrawingBoxes, MaxPrimitives) :
      \E is \in SeqsUpTo(ImageBoxes, MaxPrimitives - Len(ds)) :
        \E bs \in SeqsUpTo(TextBlocks, MaxPrimitives - Len(ds) - Len(is)) :
          /\ mode = "parse" /\ pc = "start" /\ ret = "none"
          /\ rect_list = <<>> /\ new_rect_list = <<>> /\ merged = FALSE
          /\ distance = 0 /\ horizontal_distance = 0 /\ passes = 0
          /\ arg_list = <<>> /\ input0 = <<>> /\ result = <<>> /\ first_call = NoCall
          /\ source_rects = <<>> /\ target_rects = <<>> /\ new_source_rects = <<>>
          /\ position = 0 /\ adsorb_distance = 0 /\ sources0 = <<>> /\ targets0 = <<>>
          /\ fate = <<>>
          /\ drawings = ds /\ images = is /\ blocks = bs
          /\ pool = <<>> /\ regions = <<>>

Init == InitMerge \/ InitAdsorb \/ InitParse

Next ==
    \/ MergePopScan
    \/ MergeNextPass
    \/ MergeReturn
    \/ MergeAgain
    \/ AdsorbSource
    \/ AdsorbReturn
    \/ ParseStart
    \/ ParseAdsorbLarge
    \/ ParseAdsorbSmall
    \/ ParseFinalMerge
    \/ ParseFilter

Spec == Init /\ [][Next]_vars

----------------------------------------------------------------------------
(* Properties *)

MergeReturned == pc \in {"merged_once", "merged_twice", "pool_merged", "final_merged"}
AdsorbReturned == pc \in {"adsorbed", "large_adsorbed", "small_adsorbed"}

Indices(list) == 1..Len(list)

\* The componentwise min/max box of a non-empty set of rectangles.
BoundingBox(S) ==
    box(CHOOSE v \in {r.x0 : r \in S} : \A r \in S : v <= r.x0,
        CHOOSE v \in {r.y0 : r \in S} : \A r \in S : v <= r.y0,
        CHOOSE v \in {r.x1 : r \in S} : \A r \in S : v >= r.x1,
        CHOOSE v \in {r.y1 : r \in S} : \A r \in S : v >= r.y1)

\* C1: no two entries of the list _parse_rects returns are near each other
\* at distance 10.
C1_FinalRegionsNotNear ==
    pc = "done" =>
        \A i, j \in Indices(regions) :
            i # j => ~_is_near(regions[i], regions[j], 10 * 20)

\* Two regions are returned and the final merge had something to merge.
C1_Witness ==
    pc = "done" /\ Len(regions) >= 2 /\ passes >= 2

\* C2: _merge_rects on the result of _merge_rects, same thresholds, returns
\* the same rectangles in the same order after one pass without a merge.
C2_MergeIdempotent ==
    pc = "merged_twice" =>
        /\ result = first_call.result
        /\ passes = 1
        /\ ~merged

\* The first call needed several passes, with the horizontal distance given,
\* and left two rectangles or more.
C2_Witness ==
    /\ pc = "merged_twice"
    /\ first_call.passes >= 2
    /\ horizontal_distance # 0
    /\ Len(result) >= 2

\* The sources no target adsorbed, in the order of the source list.
LeftoverOf(sources, f) ==
    LET NotAdsorbed(i) == f[i] = 0
        kept == SelectSeq([i \in Indices(sources) |-> i], NotAdsorbed)
    IN  [k \in Indices(kept) |-> sources[kept[k]]]

\* C3: when _adsorb_rects_to_rects returns, each source is either one entry of
\* the leftover list or covered by the one target it was unioned into, never
\* both and never neither.
C3_AdsorptionConserves ==
    AdsorbReturned =>
        /\ Len(fate) = Len(source_rects)
        /\ new_source_rects = LeftoverOf(source_rects, fate)
        /\ \A i \in Indices(source_rects) :
               fate[i] # 0 =>
                   /\ fate[i] \in Indices(target_rects)
                   /\ Contains(target_rects[fate[i]], source_rects[i])

\* Some source is left over, two others went into the same target.
C3_Witness ==
    /\ pc = "adsorbed"
    /\ \E i, j, k \in Indices(source_rects) :
           i # j /\ fate[i] # 0 /\ fate[i] = fate[j] /\ fate[k] = 0

\* C4 as stated: on return, the caller's lists hold what they held at the call.
C4_InputsUntouched ==
    /\ MergeReturned => arg_list = input0
    /\ AdsorbReturned => source_rects = sources0 /\ target_rects = targets0

\* C4 amended: _merge_rects leaves the caller's list empty; _adsorb_rects_to_rects
\* leaves the source list as it was and replaces entries of the caller's target
\* list in place, each by a box that contains the old entry, and only where a
\* source was unioned into it.
C4_InputEffects ==
    /\ MergeReturned => arg_list = <<>>
    /\ AdsorbReturned =>
           /\ source_rects = sources0
           /\ Len(target_rects) = Len(targets0)
           /\ \A k \in Indices(targets0) :
                  /\ Contains(target_rects[k], targets0[k])
                  /\ target_rects[k] # targets0[k] =>
                         \E i \in Indices(fate) : fate[i] = k

\* A merge that merged nothing has still emptied the list it was given.
C4_Witness ==
    pc = "merged_once" /\ Len(input0) >= 2 /\ result = input0 /\ arg_list = <<>>

\* Two rectangles with the same vertical extent, side by side, merged with no
\* horizontal distance.
SideBySide ==
    /\ pc = "merged_once"
    /\ horizontal_distance = 0
    /\ Len(input0) = 2
    /\ input0[1].y0 = input0[2].y0
    /\ input0[1].y1 = input0[2].y1
    /\ GapX(input0[1], input0[2]) > 0

C6_SizeFilter ==
    pc = "done" =>
        /\ \A k \in Indices(regions) :
               Width(regions[k]) > 20 * 20 /\ Height(regions[k]) > 20 * 20
        /\ \A k \in Indices(result) :
               (Width(result[k]) > 20 * 20 /\ Height(result[k]) > 20 * 20) =>
                   \E h \in Indices(regions) : regions[h] = result[k]
        /\ \A i \in Indices(pool) :
               IsValid(pool[i]) =>
                   \E k \in Indices(result) : Contains(result[k], pool[i])

\* A pooled rectangle at most 20 wide lies inside a returned region.
C6_Witness ==
    /\ pc = "done"
    /\ \E i \in Indices(pool), k \in Indices(regions) :
           Width(pool[i]) <= 20 * 20 /\ Contains(regions[k], pool[i])

\* C7: every returned rectangle contains a drawing or an image of the page,
\* and a page without drawings and images returns the empty list.
C7_TextMakesNoRegion ==
    pc = "done" =>
        /\ \A k \in Indices(regions) :
               \/ \E i \in Indices(drawings) : Contains(regions[k], drawings[i])
               \/ \E i \in Indices(images) : Contains(regions[k], images[i])
        /\ (drawings = <<>> /\ images = <<>>) => regions = <<>>

\* A text block wider and higher than 20 that no target adsorbed is in no
\* returned region, on a page that returns a region.
C7_Witness ==
    /\ pc = "done"
    /\ regions # <<>>
    /\ \E i \in Indices(blocks) :
           /\ BigEnough(blocks[i].rect)
           /\ \A k \in Indices(regions) : ~Contains(regions[k], blocks[i].rect)

\* C8: when a popped rectangle is appended, every rectangle of the remaining
\* list that satisfied the merge predicate against it has been unioned into
\* it.
C8_ScanAbsorbsEveryPartner ==
    [][(pc = "merge" /\ rect_list # <<>>) =>
          \A i \in 2..Len(rect_list) :
              MergePredicate(rect_list[1].b, rect_list[i].b, distance,
                             horizontal_distance) =>
                  rect_list[i].src \subseteq
                      new_rect_list'[Len(new_rect_list')].src]_vars

\* C9: the rectangles _merge_rects returns are the bounding boxes of the groups
\* of a partition of its input; none is lost and the list does not grow.
C9_MergePartitions ==
    MergeReturned =>
        /\ Len(result) <= Len(input0)
        /\ Len(rect_list) = Len(result)
        /\ \A k \in Indices(result) :
               /\ rect_list[k].src # {}
               /\ rect_list[k].src \subseteq Indices(input0)
               /\ result[k] = BoundingBox({input0[i] : i \in rect_list[k].src})
        /\ \A i \in Indices(input0) :
               /\ \E k \in Indices(result) : i \in rect_list[k].src
               /\ \A k, h \in Indices(result) :
                      (i \in rect_list[k].src /\ i \in rect_list[h].src) => k = h
               /\ \E k \in Indices(result) : Contains(result[k], input0[i])
        /\ input0 = <<>> => result = <<>>
        /\ Len(input0) = 1 => result = input0

\* A group of three inputs and a second returned rectangle.
C9_Witness ==
    /\ pc = "merged_once"
    /\ Len(result) >= 2
    /\ \E k \in Indices(rect_list) : Cardinality(rect_list[k].src) >= 3

\* C10 as stated: the outer loop of _merge_rects runs at most n passes for n
\* input rectangles.
C10_AtMostNPasses ==
    MergeReturned => passes <= Len(input0)

\* C10 amended: a pass that merges shortens the list, so the outer loop runs at
\* most max(n, 1) passes, and the last pass merges nothing.
C10_PassesBounded ==
    /\ pc = "merge" =>
           Len(rect_list) + Len(new_rect_list) + (passes - 1)
               + (IF merged THEN 1 ELSE 0) <= Len(input0)
    /\ (pc = "merge" \/ MergeReturned) => passes <= Max(1, Len(input0))
    /\ MergeReturned => ~merged

\* Four rectangles took four passes.
C10_Witness ==
    pc = "merged_once" /\ Len(input0) = 4 /\ passes = 4

====
